---- MODULE Spec2Model ----
(***************************************************************************)
(* Model of ranch (src/main.rs): exec() deploys a package by creating one  *)
(* soft link per file of DIR/PACKAGE under the target directory.           *)
(* Paths are sequences of path components; the filesystem is a function    *)
(* from paths to nodes.                                                    *)
(***************************************************************************)
EXTENDS Integers, Sequences, FiniteSets, TLC

\* ---------------------------------------------------------------- bounds
MaxRuns == 2

\* ------------------------------------------------------------- constants
LV_WARN == 1
LV_INFO == 2
LV_DEBUG == 3

ConflictResolution == {"Stop", "Ignore", "Overwrite", "Adopt", "Rollback"}

\* -------------------------------------------------------- path universe
Root == <<>>
Home == <<"R">>
Dir == <<"R", "dot">>
Package == <<"home">>
ExplicitTarget == <<"R", "t">>
Foreign == <<"R", "x">>

\* Relative paths a package may contain (files a and sub/b, directory sub).
Rels == {<<"a">>, <<"sub">>, <<"sub", "b">>}

Paths ==
  {Root, Home, Dir, Dir \o Package, Foreign, ExplicitTarget}
    \cup {Dir \o Package \o r : r \in Rels}
    \cup {Home \o r : r \in Rels}
    \cup {ExplicitTarget \o r : r \in Rels}

None == [some |-> FALSE, value |-> <<>>]
Some(v) == [some |-> TRUE, value |-> v]

\* Path::parent
Parent(p) == IF p = <<>> THEN None ELSE Some(SubSeq(p, 1, Len(p) - 1))

\* PathBuf::join with a relative argument
Join(p, rel) == p \o rel

\* Path::strip_prefix: Err when base is not a component-wise prefix of p
StripPrefix(p, base) ==
  IF Len(base) <= Len(p) /\ SubSeq(p, 1, Len(base)) = base
    THEN [ok |-> TRUE, path |-> SubSeq(p, Len(base) + 1, Len(p))]
    ELSE [ok |-> FALSE, path |-> <<>>]

\* ------------------------------------------------------------ filesystem
Missing == [type |-> "missing", to |-> <<>>]
File == [type |-> "file", to |-> <<>>]
Directory == [type |-> "dir", to |-> <<>>]
Symlink(to) == [type |-> "symlink", to |-> to]

\* Path::is_symlink (symlink_metadata: does not follow links)
IsSymlink(f, p) == p \in DOMAIN f /\ f[p].type = "symlink"

\* metadata(): follows one link (no link of the model points at a link)
Metadata(f, p) ==
  IF p \notin DOMAIN f THEN Missing
  ELSE IF f[p].type = "symlink"
    THEN (IF f[p].to \in DOMAIN f /\ f[f[p].to].type # "symlink"
            THEN f[f[p].to] ELSE Missing)
    ELSE f[p]

\* Path::is_file, Path::exists
IsFile(f, p) == Metadata(f, p).type = "file"
Exists(f, p) == Metadata(f, p).type # "missing"
IsDir(f, p) == Metadata(f, p).type = "dir"

\* std::fs::create_dir_all
RECURSIVE CreateDirAll(_, _)
CreateDirAll(f, p) ==
  IF IsDir(f, p) THEN [ok |-> TRUE, fs |-> f]
  ELSE IF f[p].type # "missing" \/ p = <<>> THEN [ok |-> FALSE, fs |-> f]
  ELSE LET up == CreateDirAll(f, Parent(p).value)
       IN IF up.ok
            THEN [ok |-> TRUE, fs |-> [up.fs EXCEPT ![p] = Directory]]
            ELSE [ok |-> FALSE, fs |-> f]

\* a plausible slip: the two arguments of symlink() swapped
soft_link_swapped(f, from, to) ==
  IF f[from].type # "missing" THEN [ok |-> FALSE, fs |-> f]
  ELSE IF ~Parent(from).some \/ ~IsDir(f, Parent(from).value)
    THEN [ok |-> FALSE, fs |-> f]
  ELSE [ok |-> TRUE, fs |-> [f EXCEPT ![from] = Symlink(to)]]

\* std::os::unix::fs::symlink(from, to): EEXIST when anything is at `to`
\* (no link is followed), ENOENT/ENOTDIR when its parent is no directory.
soft_link(f, from, to) ==
  IF f[to].type # "missing" THEN [ok |-> FALSE, fs |-> f]
  ELSE IF ~Parent(to).some \/ ~IsDir(f, Parent(to).value)
    THEN [ok |-> FALSE, fs |-> f]
  ELSE [ok |-> TRUE, fs |-> [f EXCEPT ![to] = Symlink(from)]]

\* WalkDir::new(root).follow_links(false): the root first, then, for a
\* directory, its children in readdir order, each followed by its subtree.
\* The iterator is lazy, but no destination of the model lies inside the
\* tree being walked, so the sequence is fixed once the walk begins.
RECURSIVE WalkChildren(_, _, _, _)
RECURSIVE WalkDir(_, _, _)
WalkDir(f, p, order) ==
  <<p>> \o (IF f[p].type = "dir" THEN WalkChildren(f, p, order, 1) ELSE <<>>)
WalkChildren(f, p, order, k) ==
  IF k > Len(order) THEN <<>>
  ELSE LET c == p \o <<order[k]>>
       IN (IF c \in DOMAIN f /\ f[c].type # "missing"
             THEN WalkDir(f, c, order) ELSE <<>>)
          \o WalkChildren(f, p, order, k + 1)

\* ------------------------------------------------------------------ state
VARIABLES
  args,         \* struct Args, as parsed from argv
  readdir,      \* order in which the OS lists directory entries
  fs,           \* the filesystem: path -> node
  pc,           \* "start", "loop", "done", "exited" (exit(1)), "panicked"
  target_path,  \* exec's local target_path
  prefix_path,  \* exec's local prefix_path
  entries,      \* the paths the WalkDir iterator yields, in order
  idx,          \* number of entries the for loop has taken so far
  stderr,       \* lines written to the stderr writer
  run,          \* number of the current invocation of exec
  before,       \* the filesystem when the current invocation began
  history       \* one record per finished earlier invocation

vars == <<args, readdir, fs, pc, target_path, prefix_path, entries, idx,
          stderr, run, before, history>>

Verbosities == {0, LV_INFO, LV_DEBUG}

Line(kind, a, b) == [kind |-> kind, a |-> a, b |-> b]

\* The source tree DIR/PACKAGE: missing, a plain file, or a directory
\* holding any of a (file or link), sub/ and sub/b.
SourceTrees ==
  {[r \in Rels |-> Missing]}
    \cup {[r \in Rels |-> IF r = <<"a">> THEN a
                          ELSE IF r = <<"sub">> THEN Directory ELSE b] :
            a \in {Missing, File, Symlink(Foreign)}, b \in {Missing, File}}
    \cup {[r \in Rels |-> IF r = <<"a">> THEN a ELSE Missing] :
            a \in {File, Symlink(Foreign)}}

\* What may already be under the target before the first run.
TargetTrees ==
  {[r \in Rels |-> IF r = <<"a">> THEN a
                   ELSE IF r = <<"sub">> THEN s ELSE Missing] :
     a \in {Missing, File, Directory, Symlink(Dir \o Package \o <<"a">>),
            Symlink(Foreign)},
     s \in {Missing, File, Directory}}
    \cup {[r \in Rels |-> IF r = <<"a">> THEN a
                          ELSE IF r = <<"sub">> THEN Directory ELSE b] :
            a \in {Missing, File, Directory,
                   Symlink(Dir \o Package \o <<"a">>), Symlink(Foreign)},
            b \in {File, Symlink(Foreign)}}

EmptyTree == [r \in Rels |-> Missing]

MkFS(pkg, src, tnode, home, expl) ==
  [p \in Paths |->
     IF p \in {Root, Home, Dir} THEN Directory
     ELSE IF p = Foreign THEN Missing
     ELSE IF p = Dir \o Package THEN pkg
     ELSE IF p = ExplicitTarget THEN tnode
     ELSE IF StripPrefix(p, Dir \o Package).ok
       THEN src[StripPrefix(p, Dir \o Package).path]
     ELSE IF StripPrefix(p, ExplicitTarget).ok
       THEN expl[StripPrefix(p, ExplicitTarget).path]
     ELSE home[StripPrefix(p, Home).path]]

\* Filesystems the first run may start from.  Only the tree under the
\* target the arguments select is populated; the other one is empty.
InitFS(target) ==
  IF target.some
    THEN {MkFS(pkg, EmptyTree, t, EmptyTree, EmptyTree) :
            pkg \in {Missing, File, Directory}, t \in {Missing, File}}
         \cup {MkFS(pkg, EmptyTree, Directory, EmptyTree, e) :
                 pkg \in {Missing, File}, e \in TargetTrees}
         \cup {MkFS(Directory, s, Directory, EmptyTree, e) :
                 s \in SourceTrees, e \in TargetTrees}
         \cup {MkFS(Directory, s, t, EmptyTree, EmptyTree) :
                 s \in SourceTrees, t \in {Missing, File}}
    ELSE {MkFS(pkg, EmptyTree, Missing, h, EmptyTree) :
            pkg \in {Missing, File}, h \in TargetTrees}
         \cup {MkFS(Directory, s, Missing, h, EmptyTree) :
                 s \in SourceTrees, h \in TargetTrees}

\* The listing order only matters when a directory has two children.
ReaddirOrders(f) ==
  IF f[Dir \o Package \o <<"a">>].type # "missing"
     /\ f[Dir \o Package \o <<"sub">>].type # "missing"
    THEN {<<"a", "sub", "b">>, <<"sub", "a", "b">>}
    ELSE {<<"a", "sub", "b">>}

Init ==
  /\ args \in [dry_run : BOOLEAN, dir : {Dir},
               target : {None, Some(ExplicitTarget)},
               verbose : Verbosities, delete : {"", "home"},
               exists : ConflictResolution, package : {Package}]
  /\ fs \in InitFS(args.target)
  /\ readdir \in ReaddirOrders(fs)
  /\ pc = "start"
  /\ target_path = <<>>
  /\ prefix_path = <<>>
  /\ entries = <<>>
  /\ idx = 0
  /\ stderr = <<>>
  /\ run = 1
  /\ before = fs
  /\ history = <<>>

\* ---------------------------------------------------------------- actions
\* a plausible slip: --target is not honoured
TargetPath_default_only(a) == Parent(a.dir)

\* exec's target_path: --target, or else DIR/.. (None when DIR has no parent)
TargetPath(a) == IF a.target.some THEN a.target ELSE Parent(a.dir)

\* exec, from Args::parse_from to the creation of the target directory
Start ==
  /\ pc = "start"
  /\ LET dbg == IF args.verbose >= LV_DEBUG
                  THEN <<Line("args", <<>>, <<>>)>> ELSE <<>>
         tgt == TargetPath(args)
         pre == Join(args.dir, args.package)
         inf == IF args.verbose >= LV_INFO
                  THEN <<Line("linking", pre, tgt.value)>> ELSE <<>>
         mk  == CreateDirAll(fs, tgt.value)
     IN IF ~tgt.some
          THEN /\ pc' = "panicked"
               /\ stderr' = stderr \o dbg
               /\ UNCHANGED <<fs, target_path, prefix_path, entries>>
        ELSE IF ~Exists(fs, pre)
          THEN /\ pc' = "exited"
               /\ stderr' = stderr \o dbg \o inf
                              \o <<Line("fatal", args.package, <<>>)>>
               /\ target_path' = tgt.value
               /\ prefix_path' = pre
               /\ UNCHANGED <<fs, entries>>
        ELSE IF ~mk.ok
          THEN /\ pc' = "panicked"
               /\ stderr' = stderr \o dbg \o inf
               /\ target_path' = tgt.value
               /\ prefix_path' = pre
               /\ UNCHANGED <<fs, entries>>
        ELSE /\ pc' = "loop"
             /\ stderr' = stderr \o dbg \o inf
             /\ target_path' = tgt.value
             /\ prefix_path' = pre
             /\ fs' = mk.fs
             /\ entries' = WalkDir(mk.fs, pre, readdir)
  /\ UNCHANGED <<args, readdir, idx, run, before, history>>

\* one iteration of the for loop over the walked entries
Step ==
  /\ pc = "loop"
  /\ idx < Len(entries)
  /\ idx' = idx + 1
  /\ LET src == entries[idx + 1]
         rel_path == StripPrefix(src, args.dir)
         relative_output == StripPrefix(rel_path.path, args.package)
         output_path == Join(target_path, relative_output.path)
         inf == IF args.verbose >= LV_INFO
                  THEN <<Line("link", src, output_path)>> ELSE <<>>
         ln == soft_link(fs, src, output_path)
     IN IF ~(IsFile(fs, src) \/ IsSymlink(fs, src))
          THEN UNCHANGED <<fs, pc, stderr>>
        ELSE IF ~rel_path.ok
          THEN /\ stderr' = stderr \o
                    (IF args.verbose >= LV_WARN
                       THEN <<Line("warning", src, args.dir)>> ELSE <<>>)
               /\ UNCHANGED <<fs, pc>>
        ELSE IF ~relative_output.ok
          THEN /\ pc' = "panicked"
               /\ UNCHANGED <<fs, stderr>>
        ELSE /\ stderr' = stderr \o inf
             /\ IF args.dry_run
                  THEN UNCHANGED <<fs, pc>>
                  ELSE IF ln.ok
                         THEN fs' = ln.fs /\ UNCHANGED pc
                         ELSE pc' = "panicked" /\ UNCHANGED fs
  /\ UNCHANGED <<args, readdir, target_path, prefix_path, entries, run,
                 before, history>>

\* the iterator is exhausted: exec returns
Finish ==
  /\ pc = "loop"
  /\ idx = Len(entries)
  /\ pc' = "done"
  /\ UNCHANGED <<args, readdir, fs, target_path, prefix_path, entries, idx,
                 stderr, run, before, history>>

Finished == pc \in {"done", "exited", "panicked"}

\* the program is invoked again on the filesystem the last run left, with
\* the same arguments except possibly the dry-run flag
Rerun ==
  /\ Finished
  /\ run < MaxRuns
  /\ history' = Append(history,
                       [args |-> args, before |-> before, after |-> fs,
                        pc |-> pc, stderr |-> stderr, idx |-> idx,
                        entries |-> entries])
  /\ \E d \in BOOLEAN : args' = [args EXCEPT !.dry_run = d]
  /\ run' = run + 1
  /\ before' = fs
  /\ pc' = "start"
  /\ target_path' = <<>>
  /\ prefix_path' = <<>>
  /\ entries' = <<>>
  /\ idx' = 0
  /\ stderr' = <<>>
  /\ UNCHANGED <<readdir, fs>>

Next == Start \/ Step \/ Finish \/ Rerun

Spec == Init /\ [][Next]_vars

TypeOK ==
  /\ pc \in {"start", "loop", "done", "exited", "panicked"}
  /\ DOMAIN fs = Paths
  /\ idx \in 0..Len(entries)
  /\ run \in 1..MaxRuns

\* ------------------------------------------------- vocabulary of the claims
\* The target directory the arguments denote.
TargetDirectory ==
  IF args.target.some THEN args.target.value
  ELSE SubSeq(args.dir, 1, Len(args.dir) - 1)

SourcePrefix == args.dir \o args.package

\* The planned destination of a source path: the target directory followed
\* by the components of the source below DIR/PACKAGE.
PlannedDest(src) ==
  TargetDirectory \o SubSeq(src, Len(SourcePrefix) + 1, Len(src))

IsPrefixOf(a, b) == Len(a) <= Len(b) /\ SubSeq(b, 1, Len(a)) = a
Descendant(p, anc) == IsPrefixOf(anc, p) /\ Len(p) > Len(anc)

\* The files and links of the package in filesystem f.
PackageEntries(f) ==
  {p \in Paths : Descendant(p, SourcePrefix)
                 /\ f[p].type \in {"file", "symlink"}}

\* The directories of the package in filesystem f.
PackageDirs(f) ==
  {p \in Paths : Descendant(p, SourcePrefix) /\ f[p].type = "dir"}

PlannedDests(f) == {PlannedDest(e) : e \in PackageEntries(f)}

\* A conflict: the planned destination is already a file or a link.
Conflict(f, e) == f[PlannedDest(e)].type \in {"file", "symlink"}

\* The planned destination is free and the directory it goes in exists.
Free(f, e) ==
  /\ f[PlannedDest(e)].type = "missing"
  /\ f[SubSeq(PlannedDest(e), 1, Len(PlannedDest(e)) - 1)].type = "dir"

\* f is a filesystem with a package directory and a target directory.
Deployed(f) ==
  /\ f[SourcePrefix].type = "dir"
  /\ f[TargetDirectory].type = "dir"

Symlinks(f) == {p \in Paths : f[p].type = "symlink"}

\* The entries the loop has taken so far, and the one it took last.
Taken == {entries[i] : i \in 1..idx}
Aborted == pc \in {"exited", "panicked"}

\* ----------------------------------------------------------------- claims
\* C1: a run with dry_run = true mutates nothing: every path, the target
\* directory included, has the same existence and type as before the run.
C1_DryRunMutatesNothing ==
  args.dry_run => \A p \in Paths : fs[p].type = before[p].type

\* C2: a removal run (delete names the package) removes every destination
\* of the package that is a symlink, leaves every other destination as it
\* was, and creates no link.
C2_RemovalOnlySymlinks ==
  (Finished /\ args.delete = "home" /\ ~args.dry_run /\ Deployed(before))
    => \A e \in PackageEntries(before) :
         IF before[PlannedDest(e)].type = "symlink"
           THEN fs[PlannedDest(e)].type = "missing"
           ELSE fs[PlannedDest(e)] = before[PlannedDest(e)]

\* C3: a non-dry Rollback run that meets a conflict leaves the same set of
\* symlinks as before the run, and the conflicting entry untouched.
C3_RollbackRestores ==
  (Finished /\ ~args.dry_run /\ args.exists = "Rollback"
     /\ args.delete = "" /\ idx >= 1
     /\ entries[idx] \in PackageEntries(before)
     /\ Conflict(before, entries[idx]))
    => /\ Symlinks(fs) = Symlinks(before)
       /\ fs[PlannedDest(entries[idx])] = before[PlannedDest(entries[idx])]

\* C4: a non-dry Ignore run skips every conflicting destination unchanged,
\* links every entry whose destination is free, and ends in success.
C4_IgnoreSkipsAndContinues ==
  (Finished /\ ~args.dry_run /\ args.exists = "Ignore"
     /\ args.delete = "" /\ Deployed(before)
     /\ \A e \in PackageEntries(before) :
          Conflict(before, e) \/ Free(before, e))
    => /\ pc = "done"
       /\ \A e \in PackageEntries(before) :
            IF Conflict(before, e)
              THEN fs[PlannedDest(e)] = before[PlannedDest(e)]
              ELSE fs[PlannedDest(e)] = Symlink(e)

\* C5: two non-dry Overwrite runs in succession: the second completes and
\* leaves the state the first one left, every planned destination being a
\* symlink to its source.
C5_OverwriteIdempotent ==
  (Finished /\ run = 2 /\ args.exists = "Overwrite"
     /\ args.delete = "" /\ ~args.dry_run
     /\ ~history[1].args.dry_run /\ Deployed(history[1].before)
     /\ \A e \in PackageEntries(history[1].before) :
          Conflict(history[1].before, e) \/ Free(history[1].before, e))
    => /\ pc = "done"
       /\ fs = history[1].after
       /\ \A e \in PackageEntries(before) : fs[PlannedDest(e)] = Symlink(e)

\* C6: in a non-dry run, an entry whose destination lies in a subdirectory
\* of the target that does not exist yet is linked, after that subdirectory
\* has been created as a plain directory.
C6_IntermediateDirsCreated ==
  (~args.dry_run /\ pc # "start" /\ args.delete = "" /\ Deployed(fs))
    => \A e \in Taken \cap PackageEntries(before) :
         LET d == PlannedDest(e)
             up == SubSeq(d, 1, Len(d) - 1)
         IN (before[d].type = "missing" /\ before[up].type = "missing"
             /\ Descendant(up, TargetDirectory))
              => fs[up].type = "dir" /\ fs[d] = Symlink(e)

\* C7: a non-dry Stop run aborts at the first entry, in traversal order,
\* whose destination is a file or a link: that destination is unchanged,
\* the entries before it are linked and no entry after it is processed.
C7_StopLeavesPrefix ==
  (Finished /\ ~args.dry_run /\ args.exists = "Stop"
     /\ args.delete = "" /\ Deployed(fs))
    => \A i \in 1..Len(entries) :
         (/\ entries[i] \in PackageEntries(before)
          /\ Conflict(before, entries[i])
          /\ \A j \in 1..(i - 1) :
               entries[j] \in PackageEntries(before)
                 => before[PlannedDest(entries[j])].type = "missing")
           => /\ Aborted
              /\ idx = i
              /\ fs[PlannedDest(entries[i])] = before[PlannedDest(entries[i])]
              /\ \A j \in 1..(i - 1) :
                   entries[j] \in PackageEntries(before)
                     => fs[PlannedDest(entries[j])] = Symlink(entries[j])
              /\ \A j \in (i + 1)..Len(entries) :
                   entries[j] \in PackageEntries(before)
                     => fs[PlannedDest(entries[j])]
                          = before[PlannedDest(entries[j])]

\* C8: from the same initial state and with the same arguments, a dry run
\* reports the same entries with the same outcome as the real run: where
\* the real run stops, the dry run stops too.
C8_DryRunPreviewsRealRun ==
  (Finished /\ run = 2 /\ ~args.dry_run /\ history[1].args.dry_run
     /\ args.delete = "" /\ args.verbose >= LV_INFO
     /\ Deployed(before) /\ history[1].before = before)
    => /\ (history[1].pc = "done") = (pc = "done")
       /\ history[1].idx = idx
       /\ history[1].stderr = stderr

IsLinkLine(l) == l.kind = "link"
IsEntry(p) == fs[p].type \in {"file", "symlink"}

\* C9: every deployable entry gets the destination target_directory joined
\* with its path below DIR/PACKAGE; nesting is kept, distinct entries get
\* distinct destinations, and entries of the package get descendants of the
\* target directory.  (Read off the "src -> dst" lines of a verbose run.)
C9_RelativePathFidelity ==
  args.verbose >= LV_INFO
    => LET L == SelectSeq(stderr, IsLinkLine)
           D == SelectSeq(SubSeq(entries, 1, idx), IsEntry)
       IN /\ Len(L) = Len(D)
          /\ \A k \in 1..Len(L) :
               /\ L[k].a = D[k]
               /\ L[k].b = PlannedDest(D[k])
               /\ Descendant(D[k], SourcePrefix)
                    => /\ Descendant(L[k].b, TargetDirectory)
                       /\ Len(L[k].b) - Len(TargetDirectory)
                            = Len(D[k]) - Len(SourcePrefix)
          /\ \A k, m \in 1..Len(L) : L[k].a # L[m].a => L[k].b # L[m].b

\* A verbose run with an explicit target has planned a top-level and a
\* nested entry.
C9_Witness ==
  /\ args.verbose >= LV_INFO
  /\ args.target.some
  /\ \E k, m \in 1..Len(stderr) :
       /\ stderr[k] = Line("link", Dir \o Package \o <<"a">>,
                           ExplicitTarget \o <<"a">>)
       /\ stderr[m] = Line("link", Dir \o Package \o <<"sub", "b">>,
                           ExplicitTarget \o <<"sub", "b">>)

\* What C10 expects of a run that started in f: a link at every planned
\* destination, pointing at its source, and nothing else changed.
AllLinked(f) ==
  [p \in Paths |->
     IF p \in PlannedDests(f)
       THEN Symlink(CHOOSE e \in PackageEntries(f) : PlannedDest(e) = p)
       ELSE f[p]]

AllFree(f) ==
  /\ f[SourcePrefix].type = "dir"
  /\ \A e \in PackageEntries(f) : Free(f, e)

C10_Outcome ==
  /\ ~Aborted
  /\ \A p \in Paths \ PlannedDests(before) : fs[p] = before[p]
  /\ \A e \in Taken \cap PackageEntries(before) :
       fs[PlannedDest(e)] = Symlink(e)
  /\ \A d \in Taken \cap PackageDirs(before) :
       fs[PlannedDest(d)].type # "symlink"
  /\ pc = "done" => fs = AllLinked(before)

\* C10 as stated: a non-dry run in which every planned destination is
\* missing and has an existing parent directory links every file and link
\* of the package, links no directory, changes nothing else and succeeds.
C10_Original ==
  (~args.dry_run /\ args.delete = "" /\ AllFree(before)) => C10_Outcome

\* C10 amended: the same, for runs whose target directory already exists.
C10_FreshDeployment ==
  (~args.dry_run /\ args.delete = "" /\ AllFree(before)
     /\ before[TargetDirectory].type = "dir")
    => C10_Outcome

\* A finished run with the default target has linked a top-level and a
\* nested file of the package.
C10_Witness ==
  /\ pc = "done"
  /\ ~args.dry_run
  /\ args.delete = ""
  /\ ~args.target.some
  /\ AllFree(before)
  /\ before[Home \o <<"a">>].type = "missing"
  /\ fs[Home \o <<"a">>] = Symlink(Dir \o Package \o <<"a">>)
  /\ fs[Home \o <<"sub", "b">>] = Symlink(Dir \o Package \o <<"sub", "b">>)
  /\ fs[Home \o <<"sub">>] = Directory

====
